---------------------------- MODULE Spec2Model ----------------------------
(***************************************************************************)
(* Model of the usage-aggregation query builder                            *)
(*   src/internal/repository/clickhouse/builder/query_builder.go           *)
(* and of the earlier builder of the same package that is embedded in      *)
(*   src/internal/temporal/models/plan.go (lines 1588-1936).               *)
(*                                                                         *)
(* A statement text is a sequence of string tokens: the constant pieces of *)
(* the fmt.Sprintf templates, the placeholders "?k", and whatever the code *)
(* interpolates with %s / %d.  An argument is a tagged value: a Go string  *)
(* [str |-> s], a time.Time [time |-> t] or an int [int |-> n].            *)
(***************************************************************************)
EXTENDS Integers, Sequences, FiniteSets, TLC

VARIABLES
    variant,    \* which of the two builder sources is compiled in
    ctx,        \* the caller's context: tenant id and environment id
    params,     \* the caller's *events.UsageParams
    groups,     \* the caller's []events.FilterGroup
    qb,         \* the QueryBuilder
    ret,        \* what the last call on qb returned
    events,     \* the rows of the events table (row -> number of deliveries)
    peer,       \* a second caller: its request, its QueryBuilder, its last result
    workflow    \* a PriceSyncWorkflowInput and what Validate returned for it

vars == <<variant, ctx, params, groups, qb, ret, events, peer, workflow>>

----------------------------------------------------------------------------
(* Bounds of the model *)

MaxValues == 2        \* allowed values per filtered property
MaxGroups == 2        \* filter groups per request
MaxAppends == 2       \* With* calls that append CTE components to one builder
MaxDeliveries == 3    \* rows delivered to the events table, duplicates included
MaxPeerAppends == 1   \* With* calls of a second caller that append to its builder

----------------------------------------------------------------------------
(* Values *)

Str(s) == [str |-> s]
Num(n) == [int |-> n]
ZeroTime == [time |-> 0]
T0 == [time |-> 1]
T1 == [time |-> 2]
IsZero(t) == t = ZeroTime

IsStr(a) == DOMAIN a = {"str"}
IsTime(a) == DOMAIN a = {"time"}
IsInt(a) == DOMAIN a = {"int"}

\* fmt.Sprintf("?%d", n)
Ph(n) == "?" \o ToString(n)

\* fmt.Sprintf("%d", n)
Itoa(n) == ToString(n)

RECURSIVE Join(_, _)
\* strings.Join over token sequences: elems is a sequence of token sequences
Join(elems, sep) ==
    IF Len(elems) = 0 THEN <<>>
    ELSE IF Len(elems) = 1 THEN elems[1]
    ELSE elems[1] \o <<sep>> \o Join(Tail(elems), sep)

RECURSIVE Concat(_)
Concat(elems) ==
    IF Len(elems) = 0 THEN <<>> ELSE elems[1] \o Concat(Tail(elems))

\* the iteration orders a Go `for k := range m` may take over the keys S
Orders(S) ==
    {o \in [1..Cardinality(S) -> S] : \A k \in S : \E i \in DOMAIN o : o[i] = k}

----------------------------------------------------------------------------
(* Types *)

AggregationCount == "COUNT"
AggregationSum == "SUM"
AggregationAvg == "AVG"
AggregationCountUnique == "COUNT_DISTINCT"

EmptyQuery == [Query |-> <<>>, Args |-> <<>>]

NewQueryBuilder ==
    [baseQuery |-> EmptyQuery,
     filterQuery |-> EmptyQuery,
     matchedQuery |-> EmptyQuery,
     finalQuery |-> EmptyQuery,
     cteComponents |-> <<>>,
     params |-> [nil |-> TRUE]]

getDeduplicationKey == <<"tenant_id", "environment_id", "timestamp", "id">>

\* the key as it is printed by %s
DeduplicationKeyText == Join([i \in 1..Len(getDeduplicationKey) |-> <<getDeduplicationKey[i]>>], ", ")

----------------------------------------------------------------------------
(* query_builder.go: WithBaseFilters *)

\* as parseTimeConditionsWithIndex, each bound keeping its own placeholder
\* number whether or not the other is set
parseTimeConditionsFixedIndex(p, startIndex) ==
    LET s == IF ~IsZero(p.StartTime)
             THEN [conditions |-> << <<"timestamp", " >= toDateTime64(", Ph(startIndex), ", 3)">> >>,
                   args |-> <<p.StartTime>>]
             ELSE [conditions |-> <<>>, args |-> <<>>]
    IN  IF ~IsZero(p.EndTime)
        THEN [conditions |-> Append(s.conditions,
                                    <<"timestamp", " < toDateTime64(", Ph(startIndex + 1), ", 3)">>),
              args |-> Append(s.args, p.EndTime), argIndex |-> startIndex + 2]
        ELSE [conditions |-> s.conditions, args |-> s.args, argIndex |-> startIndex + 2]

parseTimeConditionsWithIndex(p, startIndex) ==
    LET s == IF ~IsZero(p.StartTime)
             THEN [conditions |-> << <<"timestamp", " >= toDateTime64(", Ph(startIndex), ", 3)">> >>,
                   args |-> <<p.StartTime>>, argIndex |-> startIndex + 1]
             ELSE [conditions |-> <<>>, args |-> <<>>, argIndex |-> startIndex]
    IN  IF ~IsZero(p.EndTime)
        THEN [conditions |-> Append(s.conditions, <<"timestamp", " < toDateTime64(", Ph(s.argIndex), ", 3)">>),
              args |-> Append(s.args, p.EndTime), argIndex |-> s.argIndex + 1]
        ELSE s

\* as FilterCondition, the running index of a value list not counting the
\* property name
FilterConditionShort(property, values, argIndex) ==
    IF Len(values) = 1
    THEN [condition |-> <<"JSONExtractString(properties, ", Ph(argIndex), ") = ", Ph(argIndex + 1)>>,
          args |-> <<Str(property), Str(values[1])>>,
          argIndex |-> argIndex + 2]
    ELSE [condition |-> <<"JSONExtractString(properties, ", Ph(argIndex), ") IN (">>
                          \o Join([i \in 1..Len(values) |-> <<Ph(argIndex + i)>>], ",")
                          \o <<")">>,
          args |-> [i \in 1..Len(values) |-> Str(values[i])] \o <<Str(property)>>,
          argIndex |-> argIndex + Len(values)]

\* one condition of the loop over params.Filters (values is not empty)
FilterCondition(property, values, argIndex) ==
    IF Len(values) = 1
    THEN [condition |-> <<"JSONExtractString(properties, ", Ph(argIndex), ") = ", Ph(argIndex + 1)>>,
          args |-> <<Str(property), Str(values[1])>>,
          argIndex |-> argIndex + 2]
    ELSE [condition |-> <<"JSONExtractString(properties, ", Ph(argIndex), ") IN (">>
                          \o Join([i \in 1..Len(values) |-> <<Ph(argIndex + i)>>], ",")
                          \o <<")">>,
          args |-> [i \in 1..Len(values) |-> Str(values[i])] \o <<Str(property)>>,
          argIndex |-> argIndex + Len(values) + 1]

RECURSIVE FilterLoop(_, _, _)
\* for property, values := range params.Filters, visiting the keys in `order`
FilterLoop(filters, order, acc) ==
    IF Len(order) = 0 THEN acc
    ELSE LET values == filters[order[1]]
         IN  IF Len(values) > 0
             THEN LET c == FilterCondition(order[1], values, acc.argIndex)
                  IN  FilterLoop(filters, Tail(order),
                                 [conditions |-> Append(acc.conditions, c.condition),
                                  args |-> acc.args \o c.args,
                                  argIndex |-> c.argIndex])
             ELSE FilterLoop(filters, Tail(order), acc)

\* append one equality condition when the value is not empty
EqCondition(acc, column, value) ==
    IF value # ""
    THEN [conditions |-> Append(acc.conditions, <<column, " = ", Ph(acc.argIndex)>>),
          args |-> Append(acc.args, Str(value)),
          argIndex |-> acc.argIndex + 1]
    ELSE acc

\* as BaseConditions, the customer conditions placed before the time window
BaseConditionsCustomerFirst(c, p, order) ==
    LET a1 == [conditions |-> << <<"event_name", " = ", Ph(1)>> >>,
               args |-> <<Str(p.EventName)>>, argIndex |-> 2]
        a2 == EqCondition(a1, "tenant_id", c.tenant)
        a3 == EqCondition(a2, "environment_id", c.environment)
        a4 == EqCondition(a3, "external_customer_id", p.ExternalCustomerID)
        a5 == EqCondition(a4, "customer_id", p.CustomerID)
        t  == parseTimeConditionsWithIndex(p, a5.argIndex)
        a6 == [conditions |-> a5.conditions \o t.conditions,
               args |-> a5.args \o t.args, argIndex |-> t.argIndex]
    IN  FilterLoop(p.Filters, order, a6)

BaseConditions(c, p, order) ==
    LET a1 == [conditions |-> << <<"event_name", " = ", Ph(1)>> >>,
               args |-> <<Str(p.EventName)>>, argIndex |-> 2]
        a2 == EqCondition(a1, "tenant_id", c.tenant)
        a3 == EqCondition(a2, "environment_id", c.environment)
        t  == parseTimeConditionsWithIndex(p, a3.argIndex)
        a4 == [conditions |-> a3.conditions \o t.conditions,
               args |-> a3.args \o t.args, argIndex |-> t.argIndex]
        a5 == EqCondition(a4, "external_customer_id", p.ExternalCustomerID)
        a6 == EqCondition(a5, "customer_id", p.CustomerID)
    IN  FilterLoop(p.Filters, order, a6)

BaseQueryText(whereClause) ==
    <<"base_events", " AS (", "SELECT * FROM (", "SELECT DISTINCT ON (">>
    \o DeduplicationKeyText
    \o <<") * ", " FROM ", "events", " WHERE ">> \o whereClause
    \o <<" ORDER BY ">> \o DeduplicationKeyText \o <<" DESC", ")", ")">>

BaseFilters(c, p, order) ==
    LET a == BaseConditions(c, p, order)
    IN  [Query |-> BaseQueryText(Join(a.conditions, " AND ")), Args |-> a.args]

----------------------------------------------------------------------------
(* query_builder.go: WithFilterGroups *)

\* one condition of the loop over group.Filters (values is not empty)
GroupFilterCondition(property, values, localArgIndex) ==
    IF Len(values) = 1
    THEN [condition |-> <<"JSONExtractString(properties, ", Ph(localArgIndex), ") = ", Ph(localArgIndex + 1)>>,
          args |-> <<Str(property), Str(values[1])>>,
          argIndex |-> localArgIndex + 2]
    ELSE [condition |-> <<"JSONExtractString(properties, ", Ph(localArgIndex), ") IN (">>
                          \o Join([i \in 1..Len(values) |-> <<Ph(localArgIndex + i)>>], ",")
                          \o <<")">>,
          args |-> [i \in 1..Len(values) |-> Str(values[i])] \o <<Str(property)>>,
          argIndex |-> localArgIndex + Len(values) + 1]

RECURSIVE GroupFilterLoop(_, _, _)
\* for property, values := range group.Filters, visiting the keys in `order`
GroupFilterLoop(filters, order, acc) ==
    IF Len(order) = 0 THEN acc
    ELSE LET values == filters[order[1]]
         IN  IF Len(values) = 0
             THEN GroupFilterLoop(filters, Tail(order), acc)
             ELSE LET c == GroupFilterCondition(order[1], values, acc.argIndex)
                  IN  GroupFilterLoop(filters, Tail(order),
                                      [conditions |-> Append(acc.conditions, c.condition),
                                       args |-> acc.args \o c.args,
                                       argIndex |-> c.argIndex])

\* as GroupTriple, the arguments of a group without conditions in the order
\* priority, identifier
GroupTripleSwapped(group, order, argIndex) ==
    LET g == GroupFilterLoop(group.Filters, order,
                             [conditions |-> <<>>, args |-> <<>>, argIndex |-> argIndex])
    IN  IF Len(g.conditions) > 0
        THEN [triple |-> <<"(", Ph(g.argIndex), ", ", Ph(g.argIndex + 1), ", (">>
                         \o Join(g.conditions, " AND ") \o <<"))">>,
              args |-> <<Str(group.ID), Num(group.Priority)>> \o g.args,
              argIndex |-> g.argIndex + 2]
        ELSE [triple |-> <<"(", Ph(g.argIndex), ", ", Ph(g.argIndex + 1), ", 1)">>,
              args |-> <<Num(group.Priority), Str(group.ID)>>,
              argIndex |-> g.argIndex + 2]

\* the body of `for _, group := range groups` for one group
GroupTriple(group, order, argIndex) ==
    LET g == GroupFilterLoop(group.Filters, order,
                             [conditions |-> <<>>, args |-> <<>>, argIndex |-> argIndex])
    IN  IF Len(g.conditions) > 0
        THEN [triple |-> <<"(", Ph(g.argIndex), ", ", Ph(g.argIndex + 1), ", (">>
                         \o Join(g.conditions, " AND ") \o <<"))">>,
              args |-> <<Str(group.ID), Num(group.Priority)>> \o g.args,
              argIndex |-> g.argIndex + 2]
        ELSE [triple |-> <<"(", Ph(g.argIndex), ", ", Ph(g.argIndex + 1), ", 1)">>,
              args |-> <<Str(group.ID), Num(group.Priority)>>,
              argIndex |-> g.argIndex + 2]

RECURSIVE GroupLoop(_, _, _)
GroupLoop(gs, orders, acc) ==
    IF Len(gs) = 0 THEN acc
    ELSE LET t == GroupTriple(gs[1], orders[1], acc.argIndex)
         IN  GroupLoop(Tail(gs), Tail(orders),
                       [filterConditions |-> Append(acc.filterConditions, t.triple),
                        allArgs |-> acc.allArgs \o t.args,
                        argIndex |-> t.argIndex])

FilterQueryText(filterConditions) ==
    <<"filter_matches", " AS (",
      "SELECT id, timestamp, properties, arrayMap(x -> (x.1, x.2, x.3), [">>
    \o Join(filterConditions, ",\n\t\t\t")
    \o <<"]) as group_matches", " FROM ", "base_events", ")">>

FilterGroups(gs, orders) ==
    LET a == GroupLoop(gs, orders, [filterConditions |-> <<>>, allArgs |-> <<>>, argIndex |-> 1])
    IN  [Query |-> FilterQueryText(a.filterConditions), Args |-> a.allArgs]

\* the constant text of matched_events and best_matches; every "," of the
\* Go string is a token of its own
MatchedQueryText ==
    <<"matched_events", " AS (", "SELECT id", ",", "timestamp", ",", "properties", ",",
      "arrayJoin(group_matches) as matched_group", ",",
      "matched_group.1 as group_id", ",",
      "matched_group.2 as total_filters", ",",
      "matched_group.3 as matches", " FROM ", "filter_matches", ")", ",",
      "best_matches", " AS (", "SELECT id", ",", "properties", ",",
      "argMax(group_id", ",", "(total_filters", ",", "group_id)) as best_match_group",
      " FROM ", "matched_events", " WHERE matches = 1", " GROUP BY id", ",", "properties", ")">>

RECURSIVE Split(_, _)
\* strings.Split(s, sep) on a token sequence
Split(s, sep) ==
    IF \A i \in DOMAIN s : s[i] # sep THEN <<s>>
    ELSE LET k == CHOOSE i \in DOMAIN s : s[i] = sep /\ \A j \in 1..(i - 1) : s[j] # sep
         IN  <<SubSeq(s, 1, k - 1)>> \o Split(SubSeq(s, k + 1, Len(s)), sep)

\* strings.TrimPrefix(s, "matched_events AS (")
TrimPrefix(s, prefix) ==
    IF Len(s) >= Len(prefix) /\ SubSeq(s, 1, Len(prefix)) = prefix
    THEN SubSeq(s, Len(prefix) + 1, Len(s))
    ELSE s

RECURSIVE MatchedComponents(_, _)
\* the loop over strings.Split(matchedQuery, ","); i is the Go index
MatchedComponents(pieces, i) ==
    IF Len(pieces) = 0 THEN <<>>
    ELSE LET cte == IF i = 0 THEN TrimPrefix(pieces[1], <<"matched_events", " AS (">>)
                    ELSE pieces[1]
             rest == MatchedComponents(Tail(pieces), i + 1)
         IN  IF pieces[1] # <<>>
             THEN <<[Name |-> "matched_cte_" \o Itoa(i), Query |-> cte, Args |-> <<>>]>> \o rest
             ELSE rest

----------------------------------------------------------------------------
(* query_builder.go: WithAggregation, Build *)

\* as AggClause, the property name left out of the arguments
AggClauseUnbound(aggType, propertyName) ==
    CASE aggType = AggregationCount ->
           [clause |-> <<"COUNT(*)">>, args |-> <<>>]
      [] aggType = AggregationSum ->
           [clause |-> <<"SUM(CAST(JSONExtractString(properties, ", Ph(1), ") AS Float64))">>,
            args |-> <<>>]
      [] aggType = AggregationAvg ->
           [clause |-> <<"AVG(CAST(JSONExtractString(properties, ", Ph(1), ") AS Float64))">>,
            args |-> <<>>]
      [] aggType = AggregationCountUnique ->
           [clause |-> <<"COUNT(DISTINCT JSONExtractString(properties, ", Ph(1), "))">>,
            args |-> <<>>]
      [] OTHER -> [clause |-> <<>>, args |-> <<>>]

AggClause(aggType, propertyName) ==
    CASE aggType = AggregationCount ->
           [clause |-> <<"COUNT(*)">>, args |-> <<>>]
      [] aggType = AggregationSum ->
           [clause |-> <<"SUM(CAST(JSONExtractString(properties, ", Ph(1), ") AS Float64))">>,
            args |-> <<Str(propertyName)>>]
      [] aggType = AggregationAvg ->
           [clause |-> <<"AVG(CAST(JSONExtractString(properties, ", Ph(1), ") AS Float64))">>,
            args |-> <<Str(propertyName)>>]
      [] aggType = AggregationCountUnique ->
           [clause |-> <<"COUNT(DISTINCT JSONExtractString(properties, ", Ph(1), "))">>,
            args |-> <<Str(propertyName)>>]
      [] OTHER -> [clause |-> <<>>, args |-> <<>>]

Aggregation(aggType, propertyName) ==
    LET a == AggClause(aggType, propertyName)
    IN  [Query |-> <<"SELECT ", "best_match_group", " as filter_group_id, ">> \o a.clause
                   \o <<" as value", " FROM ", "best_matches",
                        " GROUP BY ", "best_match_group", " ORDER BY ", "best_match_group">>,
         Args |-> a.args]

Build(b) ==
    LET cteParts == [i \in 1..Len(b.cteComponents) |-> b.cteComponents[i].Query]
        cteArgs == Concat([i \in 1..Len(b.cteComponents) |-> b.cteComponents[i].Args])
    IN  [Query |-> <<"WITH ">> \o Join(cteParts, ",\n") \o <<"\n">> \o b.finalQuery.Query,
         Args |-> cteArgs \o b.finalQuery.Args]

----------------------------------------------------------------------------
(* plan.go, lines 1588-1936: the earlier builder of package builder *)

Pad3(n) ==
    IF n < 10 THEN "00" \o ToString(n)
    ELSE IF n < 100 THEN "0" \o ToString(n) ELSE ToString(n)

\* t.UTC().Format("2006-01-02 15:04:05.000"), for the times of the model,
\* which are milliseconds within the first second of the epoch
formatClickHouseDateTime(t) == "1970-01-01 00:00:00." \o Pad3(t.time)

LegacyParseTimeConditions(p) ==
    LET s == IF ~IsZero(p.StartTime)
             THEN [conditions |-> << <<"timestamp", " >= toDateTime64(", "?", ", 3)">> >>,
                   args |-> <<Str(formatClickHouseDateTime(p.StartTime))>>]
             ELSE [conditions |-> <<>>, args |-> <<>>]
    IN  IF ~IsZero(p.EndTime)
        THEN [conditions |-> Append(s.conditions, <<"timestamp", " < toDateTime64(", "?", ", 3)">>),
              args |-> Append(s.args, Str(formatClickHouseDateTime(p.EndTime)))]
        ELSE s

\* one condition of either filter loop of the earlier builder
LegacyFilterCondition(property, values, argIndex) ==
    IF Len(values) = 1
    THEN [condition |-> <<"JSONExtractString(properties, '", property, "') = ", Ph(argIndex)>>,
          args |-> <<Str(values[1])>>,
          argIndex |-> argIndex + 1]
    ELSE [condition |-> <<"JSONExtractString(properties, '", property, "') IN (">>
                          \o Join([i \in 1..Len(values) |-> <<Ph(argIndex + i - 1)>>], ",")
                          \o <<")">>,
          args |-> [i \in 1..Len(values) |-> Str(values[i])],
          argIndex |-> argIndex + Len(values)]

RECURSIVE LegacyFilterLoop(_, _, _)
LegacyFilterLoop(filters, order, acc) ==
    IF Len(order) = 0 THEN acc
    ELSE LET values == filters[order[1]]
         IN  IF Len(values) > 0
             THEN LET c == LegacyFilterCondition(order[1], values, acc.argIndex)
                  IN  LegacyFilterLoop(filters, Tail(order),
                                       [conditions |-> Append(acc.conditions, c.condition),
                                        args |-> acc.args \o c.args,
                                        argIndex |-> c.argIndex])
             ELSE LegacyFilterLoop(filters, Tail(order), acc)

LegacyBaseFilters(c, p, order) ==
    LET a1 == [conditions |-> << <<"event_name", " = ", Ph(1)>> >>,
               args |-> <<Str(p.EventName)>>, argIndex |-> 2]
        a2 == EqCondition(a1, "tenant_id", c.tenant)
        a3 == EqCondition(a2, "environment_id", c.environment)
        t  == LegacyParseTimeConditions(p)
        a4 == [conditions |-> a3.conditions \o t.conditions,
               args |-> a3.args \o t.args, argIndex |-> a3.argIndex + Len(t.args)]
        a5 == EqCondition(a4, "external_customer_id", p.ExternalCustomerID)
        a6 == EqCondition(a5, "customer_id", p.CustomerID)
        a  == LegacyFilterLoop(p.Filters, order, a6)
    IN  [Query |-> BaseQueryText(Join(a.conditions, " AND ")), Args |-> a.args]

LegacyGroupTriple(group, order, argIndex) ==
    LET g == LegacyFilterLoop(group.Filters, order,
                              [conditions |-> <<>>, args |-> <<>>, argIndex |-> argIndex])
    IN  IF Len(g.conditions) > 0
        THEN [triple |-> <<"('", group.ID, "', ", Itoa(group.Priority), ", (">>
                         \o Join(g.conditions, " AND ") \o <<"))">>,
              args |-> g.args,
              argIndex |-> g.argIndex]
        ELSE [triple |-> <<"('", group.ID, "', ", Itoa(group.Priority), ", 1)">>,
              args |-> <<>>,
              argIndex |-> g.argIndex]

RECURSIVE LegacyGroupLoop(_, _, _)
LegacyGroupLoop(gs, orders, acc) ==
    IF Len(gs) = 0 THEN acc
    ELSE LET t == LegacyGroupTriple(gs[1], orders[1], acc.argIndex)
         IN  LegacyGroupLoop(Tail(gs), Tail(orders),
                             [filterConditions |-> Append(acc.filterConditions, t.triple),
                              allArgs |-> acc.allArgs \o t.args,
                              argIndex |-> t.argIndex])

LegacyFilterGroups(gs, orders) ==
    LET a == LegacyGroupLoop(gs, orders, [filterConditions |-> <<>>, allArgs |-> <<>>, argIndex |-> 1])
    IN  [Query |-> FilterQueryText(a.filterConditions), Args |-> a.allArgs]

LegacyBuild(b) ==
    LET cteParts == [i \in 1..Len(b.cteComponents) |->
                        <<b.cteComponents[i].Name, " AS (">> \o b.cteComponents[i].Query \o <<")">>]
        cteArgs == Concat([i \in 1..Len(b.cteComponents) |-> b.cteComponents[i].Args])
    IN  [Query |-> <<"WITH ">> \o Join(cteParts, ",\n") \o <<"\n">> \o b.finalQuery.Query,
         Args |-> cteArgs \o b.finalQuery.Args]

----------------------------------------------------------------------------
(* The requests of the model *)

Min(a, b) == IF a < b THEN a ELSE b

Prefixes(canon) == {SubSeq(canon, 1, n) : n \in 0..Min(MaxValues, Len(canon))}

RegionValues == <<"us-east-1", "us-west-1", "eu-west-1", "ap-south-1">>

PropertyNames == {"region", "tier"}

AllowedValues(property) ==
    IF property = "region" THEN Prefixes(RegionValues) ELSE {<<"gold">>}

\* map[string][]string values; the empty function is the nil / empty map
FilterMaps ==
    UNION {{m \in [D -> UNION {AllowedValues(q) : q \in D}] :
                \A q \in D : m[q] \in AllowedValues(q)} : D \in SUBSET PropertyNames}

NoFilters == [q \in {} |-> <<>>]

Contexts == [tenant : {"", "tenant_1"}, environment : {"", "env_1"}]

UsageParams(start, end, ext, cust, filters, aggType, propertyName) ==
    [EventName |-> "api_call", PropertyName |-> propertyName, AggregationType |-> aggType,
     StartTime |-> start, EndTime |-> end,
     ExternalCustomerID |-> ext, CustomerID |-> cust, Filters |-> filters]

FilterGroup(id, priority, filters) == [ID |-> id, Priority |-> priority, Filters |-> filters]

OneFilter(property, values) == [q \in {property} |-> values]

GroupPool ==
    {FilterGroup("g1", 2, OneFilter("tier", <<"gold">>)),
     FilterGroup("g2", 1, OneFilter("tier", <<"gold">>)),
     FilterGroup("g3", 2, NoFilters),
     FilterGroup("g4", 1, [q \in PropertyNames |->
                              IF q = "region" THEN <<"us-east-1", "us-west-1">> ELSE <<>>])}

GroupLists == UNION {[1..n -> GroupPool] : n \in 1..MaxGroups}

AggregationTypes ==
    {AggregationCount, AggregationSum, AggregationAvg, AggregationCountUnique, "MAX"}

\* requests that vary the base filters, without filter groups
BaseRequests ==
    {[ctx |-> c, params |-> UsageParams(s, e, x, u, f, AggregationCount, ""), groups |-> <<>>] :
        c \in Contexts, s \in {ZeroTime, T0}, e \in {ZeroTime, T1},
        x \in {"", "cus_ext"}, u \in {"", "cus_1"}, f \in FilterMaps}

\* requests that vary the filter groups
GroupRequests ==
    {[ctx |-> c, params |-> UsageParams(ZeroTime, ZeroTime, "", "", NoFilters, a[1], a[2]),
      groups |-> gs] :
        c \in {k \in Contexts : (k.tenant = "") <=> (k.environment = "")},
        a \in {<<AggregationCount, "">>, <<AggregationSum, "amount">>},
        gs \in GroupLists}

\* requests that vary the aggregation
AggregationRequests ==
    {[ctx |-> [tenant |-> "", environment |-> ""],
      params |-> UsageParams(ZeroTime, ZeroTime, "", "", NoFilters, a, q), groups |-> gs] :
        a \in AggregationTypes, q \in {"", "amount"},
        gs \in {<<>>, <<FilterGroup("g3", 2, NoFilters)>>}}

\* a request with property filters and filter groups of every value count
MixedRequests ==
    {[ctx |-> [tenant |-> "tenant_1", environment |-> "env_1"],
      params |-> UsageParams(ZeroTime, ZeroTime, "", "",
                             [q \in PropertyNames |->
                                 IF q = "region" THEN <<"us-east-1", "us-west-1">> ELSE <<"gold">>],
                             AggregationCount, ""),
      groups |-> <<CHOOSE g \in GroupPool : g.ID = "g4", CHOOSE g \in GroupPool : g.ID = "g1">>]}

Requests == BaseRequests \cup GroupRequests \cup AggregationRequests \cup MixedRequests

EmptyTable == [r \in {} |-> 0]

----------------------------------------------------------------------------
(* The builder as a state machine *)

ReturnedBuilder == [kind |-> "qb", Query |-> <<>>, Args |-> <<>>]
ReturnedStatement(q) == [kind |-> "stmt", Query |-> q.Query, Args |-> q.Args]
NothingReturned == [kind |-> "none", Query |-> <<>>, Args |-> <<>>]

\* the builder returned by a With* method, with the call that returned it
ReturnedBy(call) == [call |-> call] @@ ReturnedBuilder

\* no second caller
NoPeer == [absent |-> TRUE]

\* no workflow input
NoWorkflow == [absent |-> TRUE]

Component(name, q) == [Name |-> name, Query |-> q.Query, Args |-> q.Args]

\* the calls that have appended a base_events or a filter_matches component
Appends(b) ==
    Cardinality({i \in DOMAIN b.cteComponents :
                    b.cteComponents[i].Name \in {"base_events", "filter_matches"}})

InitRequest(reqs, v) ==
    /\ variant = v
    /\ \E r \in reqs : ctx = r.ctx /\ params = r.params /\ groups = r.groups
    /\ qb = NewQueryBuilder
    /\ ret = NothingReturned
    /\ events = EmptyTable
    /\ peer = NoPeer
    /\ workflow = NoWorkflow

Init == InitRequest(Requests, "indexed")

WithBaseFilters ==
    /\ Appends(qb) < MaxAppends
    /\ \E order \in Orders(DOMAIN params.Filters) :
         LET q == IF variant = "indexed" THEN BaseFilters(ctx, params, order)
                  ELSE LegacyBaseFilters(ctx, params, order)
         IN  qb' = [qb EXCEPT !.params = params,
                              !.baseQuery = q,
                              !.cteComponents = Append(@, Component("base_events", q))]
    /\ ret' = ReturnedBy([method |-> "WithBaseFilters"])
    /\ UNCHANGED <<variant, ctx, params, groups, events, peer, workflow>>

GroupOrders(gs) ==
    {os \in [1..Len(gs) -> UNION {Orders(DOMAIN gs[i].Filters) : i \in 1..Len(gs)}] :
        \A i \in 1..Len(gs) : os[i] \in Orders(DOMAIN gs[i].Filters)}

FilterGroupsApplied(b, gs, orders, v) ==
    LET q == IF v = "indexed" THEN FilterGroups(gs, orders) ELSE LegacyFilterGroups(gs, orders)
    IN  [b EXCEPT !.filterQuery = q,
                  !.matchedQuery = [Query |-> MatchedQueryText, Args |-> <<>>],
                  !.cteComponents = Append(@, Component("filter_matches", q))
                                    \o MatchedComponents(Split(MatchedQueryText, ","), 0)]

\* as WithFilterGroupsOn, without the early return on an empty list
WithFilterGroupsAlways(gs) ==
    /\ Appends(qb) < MaxAppends
    /\ \E orders \in GroupOrders(gs) : qb' = FilterGroupsApplied(qb, gs, orders, variant)
    /\ ret' = ReturnedBy([method |-> "WithFilterGroups", groups |-> gs])
    /\ UNCHANGED <<variant, ctx, params, groups, events, peer, workflow>>

\* WithFilterGroups(ctx, gs)
WithFilterGroupsOn(gs) ==
    /\ IF Len(gs) = 0
       THEN qb' = qb
       ELSE /\ Appends(qb) < MaxAppends
            /\ \E orders \in GroupOrders(gs) :
                 qb' = FilterGroupsApplied(qb, gs, orders, variant)
    /\ ret' = ReturnedBy([method |-> "WithFilterGroups", groups |-> gs])
    /\ UNCHANGED <<variant, ctx, params, groups, events, peer, workflow>>

\* the caller passes its group list, or an empty one
WithFilterGroups == \E gs \in {groups, <<>>} : WithFilterGroupsOn(gs)

\* as WithAggregation, the final fragment also appended as a component
WithAggregationAppending ==
    /\ LET q == Aggregation(params.AggregationType, params.PropertyName)
       IN  qb' = [qb EXCEPT !.finalQuery = q,
                            !.cteComponents = Append(@, Component("final", q))]
    /\ ret' = ReturnedBy([method |-> "WithAggregation"])
    /\ UNCHANGED <<variant, ctx, params, groups, events, peer, workflow>>

WithAggregation ==
    /\ qb' = [qb EXCEPT !.finalQuery = Aggregation(params.AggregationType, params.PropertyName)]
    /\ ret' = ReturnedBy([method |-> "WithAggregation"])
    /\ UNCHANGED <<variant, ctx, params, groups, events, peer, workflow>>

\* as BuildCall, the components handed over to the statement
BuildCallConsuming ==
    /\ ret' = ReturnedStatement(IF variant = "indexed" THEN Build(qb) ELSE LegacyBuild(qb))
    /\ qb' = [qb EXCEPT !.cteComponents = <<>>]
    /\ UNCHANGED <<variant, ctx, params, groups, events, peer, workflow>>

BuildCall ==
    /\ ret' = ReturnedStatement(IF variant = "indexed" THEN Build(qb) ELSE LegacyBuild(qb))
    /\ UNCHANGED <<variant, ctx, params, groups, qb, events, peer, workflow>>

Next == WithBaseFilters \/ WithFilterGroups \/ WithAggregation \/ BuildCall

Spec == Init /\ [][Next]_vars

LegacyInit == InitRequest(Requests, "legacy")

LegacySpec == LegacyInit /\ [][Next]_vars

----------------------------------------------------------------------------
(* Reading a statement text back: the placeholder convention ?1, ?2, ... *)

Range(s) == {s[i] : i \in DOMAIN s}

PhSet(n) == {Ph(k) : k \in 1..n}

\* no fragment of the model numbers a placeholder beyond this: the seven
\* fixed conditions and two properties of the base stage, and for every group
\* its identifier, its priority and two properties
PlaceholderLimit == 7 + 2 * (MaxValues + 1) + MaxGroups * (2 + 2 * (MaxValues + 1))

PlaceholderTokens == [k \in 1..PlaceholderLimit |-> Ph(k)]

PlaceholderSet == PhSet(PlaceholderLimit)

PlaceholderNumber(tok) == CHOOSE k \in 1..PlaceholderLimit : PlaceholderTokens[k] = tok

\* the numbers of the placeholders of a text, in text order
PlaceholderNumbers(text) ==
    LET phs == SelectSeq(text, LAMBDA t : t \in PlaceholderSet)
    IN  [i \in 1..Len(phs) |-> PlaceholderNumber(phs[i])]

Missing == [missing |-> TRUE]

\* the argument a placeholder token of a fragment is bound to
Bound(q, tok) ==
    LET ks == {k \in 1..Min(Len(q.Args), PlaceholderLimit) : PlaceholderTokens[k] = tok}
    IN  IF ks = {} THEN Missing ELSE q.Args[CHOOSE k \in ks : TRUE]

IndexOf(s, tok) == CHOOSE i \in DOMAIN s : s[i] = tok /\ \A j \in 1..(i - 1) : s[j] # tok

Between(s, a, b) == SubSeq(s, IndexOf(s, a) + 1, IndexOf(s, b) - 1)

\* the placeholders of a token sequence, each replaced by its bound argument
BoundValues(q, toks) ==
    LET phs == SelectSeq(toks, LAMBDA t : t \in PlaceholderSet \cup {"?"})
    IN  [i \in 1..Len(phs) |-> Bound(q, phs[i])]

\* one condition of a WHERE clause or of a group triple, with its placeholders bound
DecodedCondition(q, c) ==
    IF c[1] \in {"JSONExtractString(properties, ", "JSONExtractString(properties, '"}
    THEN [column |-> "properties", op |-> c[3],
          name |-> IF c[1] = "JSONExtractString(properties, " THEN Bound(q, c[2]) ELSE Str(c[2]),
          values |-> BoundValues(q, SubSeq(c, 3, Len(c)))]
    ELSE [column |-> c[1], op |-> c[2], name |-> Str(c[1]), values |-> <<Bound(q, c[3])>>]

\* the conditions of the WHERE clause of a base_events fragment
BaseWhere(q) ==
    LET cs == Split(Between(q.Query, " WHERE ", " ORDER BY "), " AND ")
    IN  [i \in 1..Len(cs) |-> DecodedCondition(q, cs[i])]

\* the (group id, priority, match) triples of a filter_matches fragment
GroupTriples(q) ==
    LET body == SubSeq(q.Query, 4, IndexOf(q.Query, "]) as group_matches") - 1)
        ts == Split(body, ",\n\t\t\t")
    IN  [i \in 1..Len(ts) |->
            LET t == ts[i]
            IN  [id |-> Bound(q, t[2]), priority |-> Bound(q, t[4]),
                 conditions |->
                     IF t[5] = ", 1)" THEN <<>>
                     ELSE LET cs == Split(SubSeq(t, 6, Len(t) - 1), " AND ")
                          IN  [j \in 1..Len(cs) |-> DecodedCondition(q, cs[j])]]]

\* the names of the stages a builder has appended, in order
Stages(b) ==
    LET named == SelectSeq(b.cteComponents,
                           LAMBDA c : c.Name \in {"base_events", "filter_matches"})
    IN  [i \in 1..Len(named) |-> named[i].Name]

\* the stage names a WITH clause defines: the tokens followed by " AS ("
DefinedStages(text) ==
    {text[i] : i \in {j \in 1..(Len(text) - 1) : text[j + 1] = " AS ("}}

\* the final SELECT of a statement: what follows the last "\n"
FinalSelect(text) ==
    LET k == CHOOSE i \in DOMAIN text : text[i] = "\n" /\ \A j \in (i + 1)..Len(text) : text[j] # "\n"
    IN  SubSeq(text, k + 1, Len(text))

TokenAfter(s, tok) == s[IndexOf(s, tok) + 1]

----------------------------------------------------------------------------
(* What the caller asked for, stated independently of the builder *)

Built == ret.kind = "stmt"

HasFinal == qb.finalQuery # EmptyQuery

\* the conditions a filter map asks for: one per property with values
RequestedConditions(filters) ==
    {[column |-> "properties",
      op |-> IF Len(filters[q]) = 1 THEN ") = " ELSE ") IN (",
      name |-> Str(q),
      values |-> [i \in 1..Len(filters[q]) |-> Str(filters[q][i])]] :
        q \in {k \in DOMAIN filters : Len(filters[k]) > 0}}

RequestedEquality(column, value) ==
    IF value = "" THEN {}
    ELSE {[column |-> column, op |-> " = ", name |-> Str(column), values |-> <<Str(value)>>]}

RequestedBound(op, t) ==
    IF IsZero(t) THEN {}
    ELSE {[column |-> "timestamp", op |-> op, name |-> Str("timestamp"), values |-> <<t>>]}

RequestedBaseConditions ==
    RequestedEquality("event_name", params.EventName)
    \cup RequestedEquality("tenant_id", ctx.tenant)
    \cup RequestedEquality("environment_id", ctx.environment)
    \cup RequestedBound(" >= toDateTime64(", params.StartTime)
    \cup RequestedBound(" < toDateTime64(", params.EndTime)
    \cup RequestedEquality("external_customer_id", params.ExternalCustomerID)
    \cup RequestedEquality("customer_id", params.CustomerID)
    \cup RequestedConditions(params.Filters)

RequestedTriples ==
    [i \in 1..Len(groups) |->
        [id |-> Str(groups[i].ID), priority |-> Num(groups[i].Priority),
         conditions |-> RequestedConditions(groups[i].Filters)]]

\* every string the caller supplied
CallerStrings ==
    ({params.EventName, params.ExternalCustomerID, params.CustomerID, params.PropertyName}
     \cup DOMAIN params.Filters
     \cup UNION {Range(params.Filters[q]) : q \in DOMAIN params.Filters}
     \cup {groups[i].ID : i \in 1..Len(groups)}
     \cup UNION {DOMAIN groups[i].Filters : i \in 1..Len(groups)}
     \cup UNION {UNION {Range(groups[i].Filters[q]) : q \in DOMAIN groups[i].Filters} :
                    i \in 1..Len(groups)})
    \ {""}

----------------------------------------------------------------------------
(* Claims C1 - C5, C9, C10: the compiled text and its arguments *)

ContiguousPlaceholders(q) ==
    LET ns == PlaceholderNumbers(q.Query)
    IN  /\ Len(ns) = Len(q.Args)
        /\ \A k \in 1..Len(q.Args) : Cardinality({i \in DOMAIN ns : ns[i] = k}) = 1

\* C1: in every statement Build returns after WithBaseFilters, optionally
\* WithFilterGroups with a non-empty list, and WithAggregation, the placeholder
\* numbers are exactly 1..N, each used for one slot, N the number of arguments.
C1_PlaceholdersContiguous ==
    (Built /\ Stages(qb) \in {<<"base_events">>, <<"base_events", "filter_matches">>})
        => ContiguousPlaceholders(ret)

\* C2: in the fragment of WithBaseFilters every placeholder is bound, by its
\* number, to the value it stands for: the property name in the extraction
\* expression, the allowed values in the equality / IN list, in list order.
C2_BaseArgumentsBound ==
    (qb.baseQuery # EmptyQuery)
        => Range(BaseWhere(qb.baseQuery)) = RequestedBaseConditions

\* C3: in the filter_matches fragment every triple's first placeholder is
\* bound to the group's identifier, the second to its priority, and the
\* placeholders of its match condition to the property names and values.
C3_GroupArgumentsBound ==
    (qb.filterQuery # EmptyQuery)
        => LET ts == GroupTriples(qb.filterQuery)
           IN  [i \in 1..Len(ts) |-> [id |-> ts[i].id, priority |-> ts[i].priority,
                                      conditions |-> Range(ts[i].conditions)]]
               = RequestedTriples

\* C4: no caller-supplied string is copied into the statement text returned
\* by Build; each occurs only in the argument list.
C4_NoCallerStringInText ==
    Built => \A i \in DOMAIN ret.Query : ret.Query[i] \notin CallerStrings

ScenarioRequest ==
    /\ ctx = [tenant |-> "", environment |-> ""]
    /\ params = UsageParams(T0, T1, "", "", OneFilter("region", <<"us-east-1", "us-west-1">>),
                            AggregationCount, "")
    /\ groups = <<>>

\* C5: the api_call / region scenario with COUNT, no filter groups and no
\* tenant or environment compiles to the arguments
\* ["api_call", T0, T1, "region", "us-east-1", "us-west-1"].
C5_ScenarioArguments ==
    (ScenarioRequest /\ Built /\ Stages(qb) = <<"base_events">> /\ HasFinal)
        => ret.Args = <<Str("api_call"), T0, T1,
                        Str("region"), Str("us-east-1"), Str("us-west-1")>>

\* C9: without filter groups the statement holds only the base stage and the
\* final aggregation, which reads the base rows as one bucket and neither
\* reads from nor groups by a filter-group stage that was not emitted.
C9_NoGroupsReadsBaseRows ==
    (Built /\ Stages(qb) = <<"base_events">> /\ HasFinal)
        => LET f == FinalSelect(ret.Query)
           IN  /\ DefinedStages(ret.Query) = {"base_events"}
               /\ TokenAfter(f, " FROM ") = "base_events"
               /\ "best_match_group" \notin Range(f)

\* C10: COUNT compiles with an empty property name; SUM, AVG and
\* COUNT_DISTINCT with an empty property name produce no compiled statement.
C10_AggregationValidation ==
    (HasFinal /\ params.PropertyName = ""
        /\ params.AggregationType \in {AggregationSum, AggregationAvg, AggregationCountUnique})
        => ~Built

----------------------------------------------------------------------------
(* The events table and what the emitted stages compute on it.             *)
(* Each stage is evaluated on the fragment the builder holds for it, its   *)
(* placeholders bound to that fragment's own argument slice.               *)

EventRow(timestamp, id, tier, amount) ==
    [tenant_id |-> "tenant_1", environment_id |-> "env_1", timestamp |-> timestamp, id |-> id,
     event_name |-> "api_call", external_customer_id |-> "cus_ext", customer_id |-> "cus_1",
     properties |-> [tier |-> tier, amount |-> amount]]

\* e1 at two timestamps with the same properties, e2, and a redelivery of
\* e1 under the same dedup key with a changed payload
RowPool ==
    {EventRow(1, "e1", "gold", "5"), EventRow(2, "e1", "gold", "5"),
     EventRow(1, "e2", "silver", "2"), EventRow(1, "e1", "silver", "2")}

TableSize(table) ==
    LET RECURSIVE Sum(_)
        Sum(S) == IF S = {} THEN 0
                  ELSE LET r == CHOOSE x \in S : TRUE IN table[r] + Sum(S \ {r})
    IN  Sum(DOMAIN table)

Delivered(table, r) ==
    [x \in DOMAIN table \cup {r} |->
        IF x = r THEN (IF r \in DOMAIN table THEN table[r] + 1 ELSE 1) ELSE table[x]]

\* the same table with every duplicate delivery removed
Deduplicated(table) == [x \in DOMAIN table |-> 1]

\* a stage either fails or has a set of possible outputs
ExecutionError == [error |-> TRUE, outputs |-> {}]

Computed(outputs) == [error |-> FALSE, outputs |-> outputs]

JSONExtractString(properties, name) ==
    IF name \in DOMAIN properties THEN properties[name] ELSE ""

ConditionWellTyped(d) ==
    CASE d.column = "properties" ->
            IsStr(d.name) /\ \A i \in DOMAIN d.values : IsStr(d.values[i])
      [] d.column = "timestamp" -> IsTime(d.values[1])
      [] OTHER -> IsStr(d.values[1])

ConditionHolds(d, r) ==
    CASE d.column = "properties" ->
            \E i \in DOMAIN d.values :
                d.values[i].str = JSONExtractString(r.properties, d.name.str)
      [] d.column = "timestamp" ->
            IF d.op = " >= toDateTime64(" THEN r.timestamp >= d.values[1].time
            ELSE r.timestamp < d.values[1].time
      [] OTHER -> r[d.column] = d.values[1].str

\* the columns of DISTINCT ON (...)
DistinctColumns(q) ==
    SelectSeq(Between(q.Query, "SELECT DISTINCT ON (", ") * "), LAMBDA t : t # ", ")

KeyOf(columns, r) == [i \in 1..Len(columns) |-> r[columns[i]]]

\* as DistinctOn, with the DISTINCT ON clause left out
SelectAll(columns, table, passing) == Computed({[r \in passing |-> table[r]]})

\* SELECT DISTINCT ON (columns) * over the rows `passing` of `table`: one row
\* per key, whichever the engine meets first
DistinctOn(columns, table, passing) ==
    Computed({[r \in S |-> 1] :
                S \in {T \in SUBSET passing :
                          \A r \in passing :
                              Cardinality({x \in T : KeyOf(columns, x) = KeyOf(columns, r)}) = 1}})

\* the possible row bags of base_events, or an execution error
BaseEvents(q, table) ==
    LET where == BaseWhere(q)
    IN  IF q = EmptyQuery \/ \E i \in DOMAIN where : ~ConditionWellTyped(where[i])
        THEN ExecutionError
        ELSE DistinctOn(DistinctColumns(q), table,
                        {r \in DOMAIN table : \A i \in DOMAIN where : ConditionHolds(where[i], r)})

\* lexicographic order of the group identifiers of the model
Identifiers == <<"g1", "g2", "g3", "g4", "g5", "g6">>

StringLess(a, b) ==
    \E i, j \in DOMAIN Identifiers : Identifiers[i] = a /\ Identifiers[j] = b /\ i < j

\* (total_filters, group_id) tuple order of argMax
TupleLess(x, y) ==
    \/ x.total_filters.int < y.total_filters.int
    \/ /\ x.total_filters = y.total_filters
       /\ StringLess(x.group_id.str, y.group_id.str)

TriplesWellTyped(ts) ==
    /\ \A i \in DOMAIN ts : IsStr(ts[i].id) /\ IsInt(ts[i].priority)
    /\ \A i \in DOMAIN ts : \A j \in DOMAIN ts[i].conditions :
          ConditionWellTyped(ts[i].conditions[j])

\* matched_events WHERE matches = 1: one row per base row and matching triple
MatchedEvents(ts, base) ==
    UNION {{[id |-> r.id, properties |-> r.properties,
             group_id |-> ts[i].id, total_filters |-> ts[i].priority] :
               i \in {k \in DOMAIN ts :
                         \A j \in DOMAIN ts[k].conditions :
                             ConditionHolds(ts[k].conditions[j], r)}} :
           r \in {x \in DOMAIN base : base[x] > 0}}

\* as BestMatches, without the argMax ... GROUP BY
AllMatches(matched) ==
    {[id |-> m.id, properties |-> m.properties, best_match_group |-> m.group_id] : m \in matched}

\* best_matches: argMax(group_id, (total_filters, group_id)) ... GROUP BY id, properties
BestMatches(matched) ==
    {[id |-> m.id, properties |-> m.properties, best_match_group |-> m.group_id] :
        m \in {x \in matched :
                  \A y \in matched :
                      (y.id = x.id /\ y.properties = x.properties) => ~TupleLess(x, y)}}

\* the possible outputs of the filter-group stages, or an execution error
Attribution(b, table) ==
    LET base == BaseEvents(b.baseQuery, table)
    IN  IF base = ExecutionError \/ b.filterQuery = EmptyQuery THEN ExecutionError
        ELSE LET ts == GroupTriples(b.filterQuery)
             IN  IF ~TriplesWellTyped(ts) THEN ExecutionError
                 ELSE Computed({BestMatches(MatchedEvents(ts, out)) : out \in base.outputs})

Castable == {"2", "5"}

CastFloat64(s) == IF s = "2" THEN 2 ELSE 5

RECURSIVE SumOf(_)
SumOf(rows) ==
    IF rows = {} THEN 0
    ELSE LET r == CHOOSE x \in rows : TRUE
         IN  CastFloat64(r.value) + SumOf(rows \ {r})

\* the value of one bucket; rows are the best_matches rows of the bucket
BucketValue(clause, name, rows) ==
    LET extracted == {[row |-> r, value |-> JSONExtractString(r.properties, name)] : r \in rows}
    IN  CASE clause = "COUNT(*)" -> [count |-> Cardinality(rows)]
          [] clause = "COUNT(DISTINCT JSONExtractString(properties, " ->
                [count |-> Cardinality({e.value : e \in extracted})]
          [] clause = "SUM(CAST(JSONExtractString(properties, " -> [sum |-> SumOf(extracted)]
          [] OTHER -> [sum |-> SumOf(extracted), count |-> Cardinality(rows)]

\* SELECT best_match_group, <aggregate> FROM best_matches GROUP BY best_match_group
FinalResult(q, best) ==
    LET clause == q.Query[4]
        name == IF clause = "COUNT(*)" THEN Str("") ELSE Bound(q, q.Query[5])
    IN  IF clause = " as value" \/ ~IsStr(name)
           \/ (clause \notin {"COUNT(*)", "COUNT(DISTINCT JSONExtractString(properties, "}
               /\ \E r \in best : JSONExtractString(r.properties, name.str) \notin Castable)
        THEN ExecutionError
        ELSE Computed({[filter_group_id |-> g,
                        value |-> BucketValue(clause, name.str,
                                              {r \in best : r.best_match_group = g})] :
                          g \in {r.best_match_group : r \in best}})

\* the possible results of the pipeline the builder holds, on a table
Results(b, table) ==
    LET att == Attribution(b, table)
    IN  IF att = ExecutionError \/ b.finalQuery = EmptyQuery THEN {ExecutionError}
        ELSE {FinalResult(b.finalQuery, best) : best \in att.outputs}

----------------------------------------------------------------------------
(* The builder together with the events table *)

TenantContext == [tenant |-> "tenant_1", environment |-> "env_1"]

ExecGroupLists ==
    {<<>>,
     <<FilterGroup("g1", 2, OneFilter("tier", <<"gold">>)),
       FilterGroup("g2", 1, OneFilter("tier", <<"gold">>))>>,
     <<FilterGroup("g3", 2, NoFilters), FilterGroup("g5", 1, OneFilter("tier", <<>>))>>,
     <<FilterGroup("g6", 2, NoFilters), FilterGroup("g3", 2, NoFilters)>>,
     <<FilterGroup("g1", 2, OneFilter("tier", <<"gold">>)), FilterGroup("g3", 2, NoFilters)>>}

ExecRequests ==
    {[ctx |-> TenantContext,
      params |-> UsageParams(ZeroTime, ZeroTime, "", "", f, a[1], a[2]), groups |-> gs] :
        f \in {NoFilters, OneFilter("tier", <<"gold">>)},
        a \in {<<AggregationCount, "">>},
        gs \in ExecGroupLists}
    \cup
    {[ctx |-> TenantContext,
      params |-> UsageParams(ZeroTime, T1, "", "", NoFilters, AggregationSum, "amount"),
      groups |-> <<FilterGroup("g3", 2, NoFilters), FilterGroup("g5", 1, NoFilters)>>]}

ExecInit == InitRequest(ExecRequests, "indexed")

\* the ingestion path delivers a row, possibly one it has delivered before
Deliver ==
    /\ TableSize(events) < MaxDeliveries
    /\ \E r \in RowPool : events' = Delivered(events, r)
    /\ UNCHANGED <<variant, ctx, params, groups, qb, ret, peer, workflow>>

ExecNext == Next \/ Deliver

ExecSpec == ExecInit /\ [][ExecNext]_vars

----------------------------------------------------------------------------
(* Claims C6 - C8: what the emitted stages compute *)

\* the dedup key (tenant_id, environment_id, timestamp, id)
DedupKey(r) == <<r.tenant_id, r.environment_id, r.timestamp, r.id>>

\* the number of rows of a bag that carry the dedup key of r
RowsWithKey(bag, r) ==
    LET RECURSIVE Sum(_)
        Sum(S) == IF S = {} THEN 0
                  ELSE LET x == CHOOSE y \in S : TRUE IN bag[x] + Sum(S \ {x})
    IN  Sum({x \in DOMAIN bag : DedupKey(x) = DedupKey(r)})

FilterStagesBuilt == Stages(qb) = <<"base_events", "filter_matches">>

\* C6: a second delivery of a row under the same dedup key changes nothing:
\* the base stage keeps exactly one row per dedup key, its output and the
\* aggregate result are those of the table without the duplicate deliveries.
C6_IdempotentDedup ==
    (Built /\ qb.baseQuery # EmptyQuery)
        => LET base == BaseEvents(qb.baseQuery, events)
           IN  /\ base # ExecutionError
                    => \A out \in base.outputs : \A r \in DOMAIN out : RowsWithKey(out, r) = 1
               /\ base = BaseEvents(qb.baseQuery, Deduplicated(events))
               /\ Results(qb, events) = Results(qb, Deduplicated(events))

\* C6's case: a row delivered twice reaches a bucket of a computed result.
C6_Witness ==
    /\ Built /\ FilterStagesBuilt /\ HasFinal
    /\ \E r \in DOMAIN events :
         /\ events[r] >= 2
         /\ \E out \in BaseEvents(qb.baseQuery, events).outputs : r \in DOMAIN out
    /\ \E res \in Results(qb, events) : res.outputs # {}

\* what the caller asked a group to match
GroupMatches(g, r) ==
    \A q \in DOMAIN g.Filters :
        Len(g.Filters[q]) > 0
            => \E i \in DOMAIN g.Filters[q] :
                  g.Filters[q][i] = JSONExtractString(r.properties, q)

MatchingGroups(r) == {i \in 1..Len(groups) : GroupMatches(groups[i], r)}

\* the matching group of highest priority, the greatest identifier on a tie
Winner(r) ==
    LET ms == MatchingGroups(r)
        i == CHOOSE k \in ms :
               \A j \in ms :
                  \/ groups[j].Priority < groups[k].Priority
                  \/ /\ groups[j].Priority = groups[k].Priority
                     /\ ~StringLess(groups[k].ID, groups[j].ID)
    IN  groups[i].ID

AttributedTo(best, r) ==
    {m.best_match_group : m \in {x \in best : x.id = r.id /\ x.properties = r.properties}}

\* C7: a base row that two or more groups match is attributed to the
\* matching group of highest priority, and on a tie of priority to the one
\* with the lexicographically greatest identifier.
C7_PriorityResolution ==
    (Built /\ FilterStagesBuilt)
        => LET base == BaseEvents(qb.baseQuery, events)
               ts == GroupTriples(qb.filterQuery)
           IN  base # ExecutionError
               => \A out \in base.outputs : \A r \in DOMAIN out :
                     Cardinality(MatchingGroups(r)) >= 2
                        => /\ TriplesWellTyped(ts)
                           /\ AttributedTo(BestMatches(MatchedEvents(ts, out)), r)
                                = {Str(Winner(r))}

\* C8: no base row is attributed to more than one group.
C8_AtMostOneGroup ==
    (Built /\ FilterStagesBuilt)
        => LET att == Attribution(qb, events)
           IN  att # ExecutionError
               => \A best \in att.outputs : \A r \in DOMAIN events :
                     Cardinality(AttributedTo(best, r)) <= 1

\* C8's case: a row that two overlapping groups match has been attributed.
C8_Witness ==
    /\ Built /\ FilterStagesBuilt
    /\ Attribution(qb, events) # ExecutionError
    /\ \E best \in Attribution(qb, events).outputs : \E r \in DOMAIN events :
         Cardinality(MatchingGroups(r)) >= 2 /\ Cardinality(AttributedTo(best, r)) = 1

----------------------------------------------------------------------------
(* Claims C11 - C13: validation and the time arguments *)

KnownAggregations ==
    {AggregationCount, AggregationSum, AggregationAvg, AggregationCountUnique}

\* C11: for an aggregation kind other than COUNT, SUM, AVG and COUNT_DISTINCT
\* no final fragment is built, so no statement text is produced for it.
C11_UnknownAggregationRejected ==
    (params.AggregationType \notin KnownAggregations) => qb.finalQuery = EmptyQuery

DuplicateGroupIDs ==
    \E i, j \in 1..Len(groups) : i # j /\ groups[i].ID = groups[j].ID

\* C12: for a filter-group list in which two groups carry the same identifier
\* no filter_matches fragment is built.
C12_DuplicateGroupsRejected ==
    DuplicateGroupIDs
        => (qb.filterQuery = EmptyQuery /\ "filter_matches" \notin Range(Stages(qb)))

\* the time-window bounds that are set, start before end
SetBounds == SelectSeq(<<params.StartTime, params.EndTime>>, LAMBDA t : ~IsZero(t))

\* C13: the arguments of the base fragment hold every set time-window bound
\* as the time value itself, start before end, and hold no time as text.
C13_TimeArgumentsNative ==
    (qb.baseQuery # EmptyQuery)
        => /\ SelectSeq(qb.baseQuery.Args, IsTime) = SetBounds
           /\ \A i \in DOMAIN qb.baseQuery.Args :
                 qb.baseQuery.Args[i] \notin
                     {Str(formatClickHouseDateTime(t)) : t \in {params.StartTime, params.EndTime}}

----------------------------------------------------------------------------
(* Claim C14: what one property condition consumes *)

\* the placeholders and arguments a property with n allowed values is to take
PlaceholdersFor(n) == IF n = 0 THEN 0 ELSE IF n = 1 THEN 2 ELSE 1 + n

RECURSIVE ConsumedOver(_, _)
ConsumedOver(filters, keys) ==
    IF keys = {} THEN 0
    ELSE LET q == CHOOSE k \in keys : TRUE
         IN  PlaceholdersFor(Len(filters[q])) + ConsumedOver(filters, keys \ {q})

ConsumedBy(filters) == ConsumedOver(filters, DOMAIN filters)

\* the numbers of the placeholders of a part of the text of q, in text order
NumbersIn(q, part) == PlaceholderNumbers(part)

IsPropertyCondition(c) == c[1] = "JSONExtractString(properties, "

\* the property conditions of a text are those of the filter map, taken in
\* some order of its keys, each with the placeholders its value count asks for
ConditionsConsume(q, conds, filters) ==
    LET cs == SelectSeq(conds, IsPropertyCondition)
    IN  \E order \in Orders({k \in DOMAIN filters : Len(filters[k]) > 0}) :
           /\ Len(cs) = Len(order)
           /\ \A i \in DOMAIN cs :
                 Len(NumbersIn(q, cs[i])) = PlaceholdersFor(Len(filters[order[i]]))

WhereTexts(q) == Split(Between(q.Query, " WHERE ", " ORDER BY "), " AND ")

TripleTexts(q) ==
    Split(SubSeq(q.Query, 4, IndexOf(q.Query, "]) as group_matches") - 1), ",\n\t\t\t")

TripleConditionTexts(t) ==
    IF t[5] = ", 1)" THEN <<>> ELSE Split(SubSeq(t, 6, Len(t) - 1), " AND ")

\* the running index before the i-th group: 1, and 2 more than its conditions
\* consume for every group before it
RECURSIVE GroupStart(_)
GroupStart(i) ==
    IF i = 1 THEN 1 ELSE GroupStart(i - 1) + ConsumedBy(groups[i - 1].Filters) + 2

----------------------------------------------------------------------------
(* Claim C15: the time window *)

RequestedWindow ==
    (IF IsZero(params.StartTime) THEN <<>>
     ELSE <<[column |-> "timestamp", op |-> " >= toDateTime64(",
             name |-> Str("timestamp"), values |-> <<params.StartTime>>]>>)
    \o
    (IF IsZero(params.EndTime) THEN <<>>
     ELSE <<[column |-> "timestamp", op |-> " < toDateTime64(",
             name |-> Str("timestamp"), values |-> <<params.EndTime>>]>>)

\* C15: the base fragment holds timestamp >= start for a set start bound,
\* timestamp < end for a set end bound and nothing for an unset bound, and
\* its placeholders are numbered 1, 2, 3, ... without a gap in text order
\* whichever bounds are set.
C15_HalfOpenWindow ==
    (qb.baseQuery # EmptyQuery)
        => LET q == qb.baseQuery
           IN  /\ SelectSeq(BaseWhere(q), LAMBDA d : d.column = "timestamp") = RequestedWindow
               /\ PlaceholderNumbers(q.Query) = [i \in 1..Len(q.Args) |-> i]

\* C15's case: only the end bound is set and customer conditions follow it
C15_Witness ==
    /\ qb.baseQuery # EmptyQuery
    /\ IsZero(params.StartTime) /\ ~IsZero(params.EndTime)
    /\ params.ExternalCustomerID # "" /\ params.CustomerID # ""
    /\ \E q \in DOMAIN params.Filters : Len(params.Filters[q]) > 0

----------------------------------------------------------------------------
(* Claim C16: placeholders and arguments of one fragment *)

Parity(q) == Cardinality(Range(NumbersIn(q, q.Query))) = Len(q.Args)

\* C16: each fragment the builder holds (base_events, filter_matches, the
\* final SELECT) has as many distinct placeholders in its text as arguments in
\* its own argument slice.
C16_FragmentParity ==
    \A q \in {qb.baseQuery, qb.filterQuery, qb.finalQuery} : q # EmptyQuery => Parity(q)

\* C16's case: the three fragments are built and each carries arguments, the
\* filter-group fragment those of a group with a condition
C16_Witness ==
    /\ \A q \in {qb.baseQuery, qb.filterQuery, qb.finalQuery} : Len(q.Args) > 0
    /\ \E i \in 1..Len(groups) : ConsumedBy(groups[i].Filters) > 0

----------------------------------------------------------------------------
(* Claim C17: the order of deduplication and filtering *)

\* the sets that hold one representative row of every dedup key of a table
Representatives(table) ==
    {T \in SUBSET DOMAIN table :
        \A r \in DOMAIN table : Cardinality({x \in T : DedupKey(x) = DedupKey(r)}) = 1}

\* the possible outputs of a base stage that collapses every dedup key to one
\* representative first and applies the conditions of q to it afterwards
DedupThenFilter(q, table) ==
    LET where == BaseWhere(q)
    IN  {[r \in {x \in T : \A i \in DOMAIN where : ConditionHolds(where[i], x)} |-> 1] :
            T \in Representatives(table)}

\* C17: the base stage collapses the rows of a dedup key to one representative
\* and applies its conditions to that representative: its possible outputs
\* are those of deduplication followed by filtering.
C17_DedupBeforeFilter ==
    (Built /\ qb.baseQuery # EmptyQuery)
        => LET base == BaseEvents(qb.baseQuery, events)
           IN  base # ExecutionError
                  => base.outputs = DedupThenFilter(qb.baseQuery, events)

----------------------------------------------------------------------------
(* Claim C18: the order of the fragments in the statement *)

\* where the WITH clause of a text defines the stage `name`
StageHeader(text, name) ==
    CHOOSE j \in 1..(Len(text) - 1) : text[j] = name /\ text[j + 1] = " AS ("

\* C18: whatever order the With* methods were called in, the statement
\* defines base_events before filter_matches and its arguments are those of
\* the base fragment, then of the filter-group fragment, then of the final
\* aggregation.
C18_PipelineOrder ==
    (Built /\ HasFinal /\ Len(Stages(qb)) = 2
           /\ Range(Stages(qb)) = {"base_events", "filter_matches"})
        => /\ StageHeader(ret.Query, "base_events") < StageHeader(ret.Query, "filter_matches")
           /\ ret.Args = qb.baseQuery.Args \o qb.filterQuery.Args \o qb.finalQuery.Args

----------------------------------------------------------------------------
(* Claim C19: the order of the arguments of the base fragment *)

\* event name, then what the context and the request set of: tenant id,
\* environment id, start time, end time, external customer id, customer id
RequestedFixedArguments ==
    <<Str(params.EventName)>>
    \o SelectSeq(<<Str(ctx.tenant), Str(ctx.environment), params.StartTime, params.EndTime,
                   Str(params.ExternalCustomerID), Str(params.CustomerID)>>,
                 LAMBDA a : a \notin {Str(""), ZeroTime})

FilterStrings ==
    DOMAIN params.Filters \cup UNION {Range(params.Filters[q]) : q \in DOMAIN params.Filters}

\* C19: the arguments of the base fragment are the event name, the tenant
\* and environment ids of the context, the start and end times, the external
\* customer and customer ids, each only when set and in this order, followed
\* by the arguments of the property filters.
C19_BaseArgumentOrder ==
    (qb.baseQuery # EmptyQuery)
        => LET a == qb.baseQuery.Args
               f == RequestedFixedArguments
           IN  /\ Len(a) = Len(f) + ConsumedBy(params.Filters)
               /\ SubSeq(a, 1, Len(f)) = f
               /\ \A i \in (Len(f) + 1)..Len(a) : IsStr(a[i]) /\ a[i].str \in FilterStrings

\* C19's case: every optional argument is set and a property filter follows
C19_Witness ==
    /\ qb.baseQuery # EmptyQuery
    /\ Len(RequestedFixedArguments) = 7
    /\ Len(qb.baseQuery.Args) > 7

----------------------------------------------------------------------------
(* Claim C20: groups without conditions *)

ZeroConditions(g) == ConsumedBy(g.Filters) = 0

----------------------------------------------------------------------------
(* Claim C21: rows that match no group *)

\* the groups a row is to be counted for: its winner, or none
RequestedBuckets(r) ==
    IF MatchingGroups(r) = {} THEN {} ELSE {Str(Winner(r))}

\* C21: with filter groups supplied, a base row that matches no group has no
\* winner and reaches no bucket of the result, and a base row that matches a
\* group is attributed to its winner, whose bucket the result holds.
C21_UnmatchedRowsDropped ==
    (Built /\ FilterStagesBuilt /\ HasFinal)
        => LET base == BaseEvents(qb.baseQuery, events)
               ts == GroupTriples(qb.filterQuery)
           IN  base # ExecutionError
               => \A out \in base.outputs : \A r \in DOMAIN out :
                     /\ TriplesWellTyped(ts)
                     /\ LET best == BestMatches(MatchedEvents(ts, out))
                            res == FinalResult(qb.finalQuery, best)
                        IN  /\ AttributedTo(best, r) = RequestedBuckets(r)
                            /\ res # ExecutionError
                            /\ \A g \in RequestedBuckets(r) :
                                  \E b \in res.outputs : b.filter_group_id = g

----------------------------------------------------------------------------
(* Claim C22: an empty group list *)

\* C22: WithFilterGroups with an empty list leaves the builder as it was: no
\* component is appended, filterQuery and matchedQuery keep their values, and
\* Build returns for the builder what it returned before the call.
C22_EmptyGroupsNoOp ==
    [][WithFilterGroupsOn(<<>>)
          => /\ qb' = qb
             /\ qb'.cteComponents = qb.cteComponents
             /\ qb'.filterQuery = qb.filterQuery /\ qb'.matchedQuery = qb.matchedQuery
             /\ Build(qb') = Build(qb)]_vars

\* C22's case: the call with an empty list has returned on a builder that
\* holds the fragments of an earlier call with groups
C22_Witness ==
    /\ ret.kind = "qb"
    /\ ret.call = [method |-> "WithFilterGroups", groups |-> <<>>]
    /\ qb.filterQuery # EmptyQuery /\ qb.matchedQuery # EmptyQuery

----------------------------------------------------------------------------
(* Claim C23: the aggregation fragment *)

PlaceholderPositions(text) == {i \in DOMAIN text : text[i] \in PlaceholderSet}

\* C23: WithAggregation gives the final fragment no argument for COUNT and one
\* argument, the property name, for SUM, AVG and COUNT_DISTINCT, which one
\* placeholder of the fragment refers to; the call replaces the final
\* fragment only and leaves the component list and the other fragments alone.
C23_AggregationFragment ==
    [][WithAggregation
          => LET f == qb'.finalQuery
                 aggType == params.AggregationType
             IN  /\ aggType = AggregationCount => f.Args = <<>>
                 /\ aggType \in {AggregationSum, AggregationAvg, AggregationCountUnique}
                       => f.Args = <<Str(params.PropertyName)>>
                 /\ aggType \in KnownAggregations
                       => /\ Cardinality(PlaceholderPositions(f.Query)) = Len(f.Args)
                          /\ \A i \in PlaceholderPositions(f.Query) :
                                Bound(f, f.Query[i]) = Str(params.PropertyName)
                 /\ qb'.cteComponents = qb.cteComponents
                 /\ qb'.baseQuery = qb.baseQuery
                 /\ qb'.filterQuery = qb.filterQuery
                 /\ qb'.matchedQuery = qb.matchedQuery]_vars

\* C23's case: WithAggregation has returned for SUM on a builder that holds
\* components, and the final fragment carries the property name
C23_Witness ==
    /\ ret.kind = "qb"
    /\ ret.call = [method |-> "WithAggregation"]
    /\ params.AggregationType = AggregationSum
    /\ qb.cteComponents # <<>>
    /\ qb.finalQuery.Args = <<Str(params.PropertyName)>>

----------------------------------------------------------------------------
(* Two callers, each compiling on a builder of its own *)

\* as NewBuilderObject, every call returning the one object
SingletonObject(n) == 1

\* the object the n-th call of NewQueryBuilder returns: a new one each time
NewBuilderObject(n) == n

PairRequests ==
    {[ctx |-> [tenant |-> "tenant_1", environment |-> "env_1"],
      params |-> UsageParams(ZeroTime, ZeroTime, "", "",
                             [q \in PropertyNames |->
                                 IF q = "region" THEN <<"us-east-1">> ELSE <<"gold">>],
                             AggregationCount, ""),
      groups |-> <<FilterGroup("g3", 2, NoFilters)>>],
     [ctx |-> [tenant |-> "", environment |-> ""],
      params |-> UsageParams(ZeroTime, ZeroTime, "", "", NoFilters, AggregationSum, "amount"),
      groups |-> <<FilterGroup("g1", 2, OneFilter("tier", <<"gold">>))>>]}

PairInit ==
    /\ variant = "indexed"
    /\ \E r \in PairRequests : ctx = r.ctx /\ params = r.params /\ groups = r.groups
    /\ qb = NewQueryBuilder
    /\ ret = NothingReturned
    /\ events = EmptyTable
    /\ \E r \in PairRequests :
         peer = [object |-> NewBuilderObject(2), ctx |-> r.ctx, params |-> r.params,
                 groups |-> r.groups, qb |-> NewQueryBuilder, ret |-> NothingReturned]
    /\ workflow = NoWorkflow

\* the second caller's method has left its builder as b and returned r; the
\* write reaches the first caller's builder when the two are one object
PeerReturns(b, r) ==
    /\ peer' = [peer EXCEPT !.qb = b, !.ret = r]
    /\ qb' = IF peer.object = NewBuilderObject(1) THEN b ELSE qb
    /\ UNCHANGED <<variant, ctx, params, groups, ret, events, workflow>>

PeerWithBaseFilters ==
    /\ Appends(peer.qb) < MaxPeerAppends
    /\ \E order \in Orders(DOMAIN peer.params.Filters) :
         LET q == BaseFilters(peer.ctx, peer.params, order)
         IN  PeerReturns([peer.qb EXCEPT !.params = peer.params,
                                         !.baseQuery = q,
                                         !.cteComponents = Append(@, Component("base_events", q))],
                         ReturnedBuilder)

PeerWithFilterGroups ==
    IF Len(peer.groups) = 0
    THEN PeerReturns(peer.qb, ReturnedBuilder)
    ELSE /\ Appends(peer.qb) < MaxPeerAppends
         /\ \E orders \in GroupOrders(peer.groups) :
              PeerReturns(FilterGroupsApplied(peer.qb, peer.groups, orders, variant),
                          ReturnedBuilder)

PeerWithAggregation ==
    PeerReturns([peer.qb EXCEPT !.finalQuery = Aggregation(peer.params.AggregationType,
                                                           peer.params.PropertyName)],
                ReturnedBuilder)

PeerBuild == PeerReturns(peer.qb, ReturnedStatement(Build(peer.qb)))

PeerNext == PeerWithBaseFilters \/ PeerWithFilterGroups \/ PeerWithAggregation \/ PeerBuild

PairNext ==
    \/ WithBaseFilters \/ WithFilterGroups \/ WithAggregation \/ BuildCall
    \/ PeerWithBaseFilters \/ PeerWithFilterGroups \/ PeerWithAggregation \/ PeerBuild

PairSpec == PairInit /\ [][PairNext]_vars

----------------------------------------------------------------------------
(* Claim C24: builders of different callers *)

\* the fragments a builder can hold when only its own caller, with request
\* (c, p, gs), has compiled on it
CompiledAlone(b, c, p, gs) ==
    LET bases == {BaseFilters(c, p, order) : order \in Orders(DOMAIN p.Filters)}
        filters == {FilterGroups(gs, orders) : orders \in GroupOrders(gs)}
        final == Aggregation(p.AggregationType, p.PropertyName)
    IN  /\ b.baseQuery \in bases \cup {EmptyQuery}
        /\ b.filterQuery \in filters \cup {EmptyQuery}
        /\ b.finalQuery \in {final, EmptyQuery}
        /\ \A i \in DOMAIN b.cteComponents :
              LET k == b.cteComponents[i]
                  q == [Query |-> k.Query, Args |-> k.Args]
              IN  \/ k.Name = "base_events" /\ q \in bases
                  \/ k.Name = "filter_matches" /\ q \in filters
                  \/ k.Name \notin {"base_events", "filter_matches"} /\ k.Args = <<>>

\* C24: compilations on two builders do not interfere: a step of one caller
\* leaves the other caller's builder and result as they were, each builder
\* holds only fragments compiled from its own caller's request, and Build
\* returns the statement of the fragments of the builder it is called on.
C24_BuildersIndependent ==
    /\ [](/\ CompiledAlone(qb, ctx, params, groups)
          /\ CompiledAlone(peer.qb, peer.ctx, peer.params, peer.groups))
    /\ [][PeerNext => (qb' = qb /\ ret' = ret)]_vars
    /\ [][(WithBaseFilters \/ WithFilterGroups \/ WithAggregation \/ BuildCall)
             => peer' = peer]_vars
    /\ [][BuildCall => ret' = ReturnedStatement(Build(qb))]_vars
    /\ [][PeerBuild => peer'.ret = ReturnedStatement(Build(peer.qb))]_vars

\* C24's case: the two callers have different requests, both have compiled
\* fragments on their builders and both have built their statement
C24_Witness ==
    /\ peer.params # params
    /\ Appends(qb) > 0 /\ Appends(peer.qb) > 0
    /\ HasFinal /\ peer.qb.finalQuery # EmptyQuery
    /\ Built /\ peer.ret.kind = "stmt"
    /\ ret.Query = Build(qb).Query /\ peer.ret.Query = Build(peer.qb).Query

----------------------------------------------------------------------------
(* Claim C25: equal inputs *)

SameInputs == peer.ctx = ctx /\ peer.params = params /\ peer.groups = groups

SameCalls ==
    /\ Stages(peer.qb) = Stages(qb)
    /\ (peer.qb.finalQuery = EmptyQuery) <=> (qb.finalQuery = EmptyQuery)

\* C25: two builders that were given equal inputs (context, parameters with
\* a filter map of two properties, groups) by the same calls hold the same
\* statement: Build returns the same text and the same arguments in the same
\* order for both.
C25_Deterministic ==
    (SameInputs /\ SameCalls) => Build(peer.qb) = Build(qb)

----------------------------------------------------------------------------
(* Claim C26: the shape of the WITH clause *)

PipelineStages == {"base_events", "filter_matches", "matched_events", "best_matches"}

Headers(text, name) ==
    {j \in 1..(Len(text) - 1) : text[j] = name /\ text[j + 1] = " AS ("}

\* the positions at which the text reads from a table or a stage
Reads(text) == {j \in 1..(Len(text) - 1) : text[j] = " FROM "}

\* C26: the statement built after WithBaseFilters, WithFilterGroups with
\* groups and WithAggregation defines each of base_events, filter_matches,
\* matched_events and best_matches once under its own name, and every FROM,
\* that of the final SELECT included, reads the events table or a stage
\* defined earlier in the text.
C26_WellFormedPipeline ==
    (Built /\ HasFinal /\ FilterStagesBuilt /\ ret.Query = Build(qb).Query)
        => /\ \A name \in PipelineStages : Cardinality(Headers(ret.Query, name)) = 1
           /\ \A j \in Reads(ret.Query) :
                 \/ ret.Query[j + 1] = "events"
                 \/ \E h \in Headers(ret.Query, ret.Query[j + 1]) : h < j

----------------------------------------------------------------------------
(* Claim C27: the number of attributed rows *)

RECURSIVE CountTotal(_)
CountTotal(buckets) ==
    IF buckets = {} THEN 0
    ELSE LET b == CHOOSE x \in buckets : TRUE
         IN  b.value.count + CountTotal(buckets \ {b})

\* C27: for COUNT the bucket values add up to the number of deduplicated base
\* rows that match a group, two base rows with the same id and properties at
\* different timestamps counting as two.
C27_CardinalityPreserved ==
    (FilterStagesBuilt /\ HasFinal /\ qb.finalQuery.Query[4] = "COUNT(*)")
        => LET base == BaseEvents(qb.baseQuery, events)
               ts == GroupTriples(qb.filterQuery)
           IN  (base # ExecutionError /\ TriplesWellTyped(ts))
               => \A out \in base.outputs :
                     LET res == FinalResult(qb.finalQuery, BestMatches(MatchedEvents(ts, out)))
                     IN  /\ res # ExecutionError
                         /\ CountTotal(res.outputs)
                               = Cardinality({r \in DOMAIN out : MatchingGroups(r) # {}})

----------------------------------------------------------------------------
(* Claim C28: one component per stage *)

ComponentsNamed(b, name) == {i \in DOMAIN b.cteComponents : b.cteComponents[i].Name = name}

\* C28: the component list holds at most one base_events and at most one
\* filter_matches component, that of the last call: a second WithBaseFilters
\* or WithFilterGroups replaces the component of the first.
C28_OneComponentPerStage ==
    /\ \A name \in {"base_events", "filter_matches"} :
          Cardinality(ComponentsNamed(qb, name)) <= 1
    /\ \A i \in ComponentsNamed(qb, "base_events") :
          qb.cteComponents[i].Query = qb.baseQuery.Query

----------------------------------------------------------------------------
(* Claim C29: Build *)

\* C29: Build changes no field of the builder, and a Build that follows a
\* Build returns the text and the arguments the first one returned.
C29_BuildReadOnly ==
    [][BuildCall => /\ qb' = qb
                    /\ Built => (ret'.Query = ret.Query /\ ret'.Args = ret.Args)]_vars

\* C29's case: Build has returned the statement of a builder that holds
\* components, arguments and a final fragment, and the builder still holds them
C29_Witness ==
    /\ Built /\ HasFinal
    /\ qb.cteComponents # <<>>
    /\ ret.Args # <<>>
    /\ ret = ReturnedStatement(Build(qb))

----------------------------------------------------------------------------
(* plan.go: PriceSyncWorkflowInput *)

PriceSyncWorkflowInput(plan, tenant, environment, user) ==
    [PlanID |-> plan, TenantID |-> tenant, EnvironmentID |-> environment, UserID |-> user]

\* ierr.NewError(message).WithHint(hint).Mark(ierr.ErrValidation)
ValidationError(message, hint) ==
    [nil |-> FALSE, message |-> message, hint |-> hint, mark |-> "ErrValidation"]

Nil == [nil |-> TRUE]

\* as Validate, the user id left unchecked
ValidateWithoutUser(p) ==
    [p |-> p,
     err |-> IF p.PlanID = ""
             THEN ValidationError("plan ID is required", "Plan ID is required")
             ELSE IF p.TenantID = "" \/ p.EnvironmentID = ""
                  THEN ValidationError("tenant ID, environment ID and user ID are required",
                                       "Tenant ID and environment ID are required")
                  ELSE Nil]

\* (p *PriceSyncWorkflowInput) Validate(): the input as the call leaves it,
\* and the error returned
Validate(p) ==
    [p |-> p,
     err |-> IF p.PlanID = ""
             THEN ValidationError("plan ID is required", "Plan ID is required")
             ELSE IF p.TenantID = "" \/ p.EnvironmentID = "" \/ p.UserID = ""
                  THEN ValidationError("tenant ID, environment ID and user ID are required",
                                       "Tenant ID and environment ID are required")
                  ELSE Nil]

WorkflowInputs ==
    {PriceSyncWorkflowInput(plan, tenant, environment, user) :
        plan \in {"", "plan_1", "plan_2"}, tenant \in {"", "tenant_1", "tenant_2"},
        environment \in {"", "env_1", "env_2"}, user \in {"", "user_1", "user_2"}}

NotValidated == [pending |-> TRUE]

ValidateInit ==
    /\ variant = "indexed"
    /\ \E r \in MixedRequests : ctx = r.ctx /\ params = r.params /\ groups = r.groups
    /\ qb = NewQueryBuilder
    /\ ret = NothingReturned
    /\ events = EmptyTable
    /\ peer = NoPeer
    /\ \E p \in WorkflowInputs : workflow = [input |-> p, err |-> NotValidated]

ValidateCall ==
    /\ "input" \in DOMAIN workflow
    /\ LET v == Validate(workflow.input)
       IN  workflow' = [input |-> v.p, err |-> v.err]
    /\ UNCHANGED <<variant, ctx, params, groups, qb, ret, events, peer>>

ValidateNext == ValidateCall

ValidateSpec == ValidateInit /\ [][ValidateNext]_vars

----------------------------------------------------------------------------
(* Claim C30: validation of the workflow input *)

Validated == workflow.err # NotValidated

AllPresent(p) == p.PlanID # "" /\ p.TenantID # "" /\ p.EnvironmentID # "" /\ p.UserID # ""

\* C30: Validate returns nil exactly when plan, tenant, environment and user
\* id are all non-empty; otherwise it returns an error marked as a validation
\* error, which reports the missing plan id whenever the plan id is empty;
\* the call leaves the input as it was.
C30_ValidateWorkflowInput ==
    /\ [](Validated
            => /\ (workflow.err = Nil) <=> AllPresent(workflow.input)
               /\ workflow.err # Nil => workflow.err.mark = "ErrValidation"
               /\ workflow.input.PlanID = ""
                     => workflow.err # Nil /\ workflow.err.message = "plan ID is required")
    /\ [][ValidateCall => workflow'.input = workflow.input]_vars

\* C30's case: Validate has returned for an input that lacks the plan id and
\* the user id, and reports the plan id
C30_Witness ==
    /\ Validated
    /\ workflow.input.PlanID = "" /\ workflow.input.UserID = ""
    /\ workflow.input.TenantID # ""
    /\ workflow.err # Nil
    /\ workflow.err.message = "plan ID is required"

=============================================================================
